---- MODULE Spec2Model ----
(***************************************************************************)
(* lsdups: list files that share a name.  Model of src/main.rs:            *)
(* get_options, the WalkDir collection, the descending sort of the files,  *)
(* get_filename_grouping, the two summary folds and the report loop.       *)
(***************************************************************************)
EXTENDS Integers, Sequences, FiniteSets, TLC

\* Bounds of the model.
MaxFiles == 4       \* entries the walk collects, at most
MaxRecords == 3     \* records handed to get_filename_grouping called on its own
WidthBits == 3      \* width of the size type in the model (u64 in the program)

Modulus == 2 ^ WidthBits

\* File sizes the file system reports: a small one, and the largest a file
\* can have where file offsets are signed (2^63 - 1 for u64): three of these
\* sum to more than the size type holds, two do not.
Sizes == {1, Modulus \div 2 - 1}

\* Values of --size.
SizeFilters == {0, 2}

\* File names as the OS stores them, byte sequences: "a", "A", and the two
\* one-byte names 0xFE and 0xFF, neither of which is valid UTF-8.
RawNames == {<<97>>, <<65>>, <<254>>, <<255>>}

\* The names the walk meets.
WalkNames == {<<97>>, <<254>>, <<255>>}

VARIABLES
    pc,                 \* position in main
    overflow_checks,    \* the build: TRUE = overflow-checked (debug), FALSE = wrapping (release)
    verbose,            \* -v
    size_filter,        \* --size
    files,              \* WalkDirEntryVec of main
    filename_grouping,  \* FileNameGrouping of main
    total_size,         \* main, line 197
    total_size_dups,    \* main, line 202
    printed,            \* the groups the report loop has printed, in order
    files2,             \* second argument sequence, get_filename_grouping called on its own
    grouping2           \* its result

vars == <<pc, overflow_checks, verbose, size_filter, files, filename_grouping,
          total_size, total_size_dups, printed, files2, grouping2>>

----------------------------------------------------------------------------
\* Results of u64 computations that may panic.
Ok(v) == [panic |-> FALSE, val |-> v, cause |-> "none"]
MetadataPanic == [panic |-> TRUE, val |-> 0, cause |-> "panic_metadata"]
OverflowPanic == [panic |-> TRUE, val |-> 0, cause |-> "panic_overflow"]

\* std::fs::Metadata of an entry: Ok(len) or Err.
MetaOk(s) == [ok |-> TRUE, len |-> s]
MetaErr == [ok |-> FALSE, len |-> 0]

Metadata == {MetaErr} \cup {MetaOk(s) : s \in Sizes}
ReadableMetadata == {MetaOk(s) : s \in Sizes}

\* walkdir::DirEntry: path is the position of the entry in the walk; f gives
\* the name and the metadata of each entry.
DirEntries(f) == [i \in DOMAIN f |-> [path |-> i, name |-> f[i][1], meta |-> f[i][2]]]

Reorderings(s) ==
    { [i \in 1..Len(s) |-> s[p[i]]] :
        p \in { q \in [1..Len(s) -> 1..Len(s)] : \A i, j \in 1..Len(s) : q[i] = q[j] => i = j } }

Front(s) == SubSeq(s, 1, Len(s) - 1)
Last(s) == s[Len(s)]

----------------------------------------------------------------------------
\* OsStr::to_string_lossy on the names above: an ASCII byte is its own code
\* point, a byte that is not valid UTF-8 becomes U+FFFD.
to_string_lossy(name) == [i \in DOMAIN name |-> IF name[i] < 128 THEN name[i] ELSE 65533]

\* ent.metadata().unwrap().len()
dirent_get_size(ent) == IF ent.meta.ok THEN Ok(ent.meta.len) ELSE MetadataPanic

\* acc + num on u64: panics in an overflow-checked build, wraps otherwise.
AddU64(acc, num) ==
    IF acc + num < Modulus THEN Ok(acc + num)
    ELSE IF overflow_checks THEN OverflowPanic
    ELSE Ok((acc + num) % Modulus)

\* Mutant of FoldSizes: the closure |acc, num| num, which drops the accumulator.
FoldSizesKeepLast(v) == IF v = <<>> THEN Ok(0) ELSE dirent_get_size(Last(v))

\* v.iter().map(|e| dirent_get_size(e)).fold(0, |acc, num| acc + num)
RECURSIVE FoldSizes(_)
FoldSizes(v) ==
    IF v = <<>> THEN Ok(0)
    ELSE LET acc == FoldSizes(Front(v))
             num == dirent_get_size(Last(v))
         IN  IF acc.panic THEN acc ELSE IF num.panic THEN num ELSE AddU64(acc.val, num.val)

\* slice::sort_by with a descending comparison of keys: a stable sort, so an
\* element precedes another when its key is larger, or equal and it came first.
SortByDesc(s, keys) ==
    LET n == Len(s)
        rank(i) == 1 + Cardinality({ j \in 1..n : keys[j] > keys[i] \/ (keys[j] = keys[i] /\ j < i) })
    IN  [k \in 1..n |-> s[CHOOSE i \in 1..n : rank(i) = k]]

\* files.sort_by(|a, b| compare_direntry(a, b)): every comparison reads the
\* metadata of both entries; a slice shorter than 2 is never compared.
SortPanics(fs) == Len(fs) >= 2 /\ \E i \in 1..Len(fs) : ~fs[i].meta.ok
SortedFiles(fs) == SortByDesc(fs, [i \in 1..Len(fs) |-> fs[i].meta.len])

----------------------------------------------------------------------------
\* get_filename_grouping

\* Mutant of fname: the key lowercased, so that names group without regard to case.
fname_ignore_case(e) ==
    LET k == to_string_lossy(e.name)
    IN  [i \in DOMAIN k |-> IF k[i] >= 65 /\ k[i] <= 90 THEN k[i] + 32 ELSE k[i]]

\* e.file_name().to_string_lossy().to_string()
fname(e) == to_string_lossy(e.name)

\* Mutant of FoldMapping: insert(0, x) in place of push(x).
RECURSIVE FoldMappingPrepend(_)
FoldMappingPrepend(fs) ==
    IF fs = <<>> THEN <<>>
    ELSE LET acc == FoldMappingPrepend(Front(fs))
             x == Last(fs)
             k == to_string_lossy(x.name)
         IN  IF k \in DOMAIN acc THEN [acc EXCEPT ![k] = <<x>> \o @]
             ELSE [j \in DOMAIN acc \cup {k} |-> IF j = k THEN <<x>> ELSE acc[j]]

\* The fold into FileNameMapping: acc.entry(k).or_insert(vec![]).push(x)
RECURSIVE FoldMapping(_)
FoldMapping(fs) ==
    IF fs = <<>> THEN <<>>
    ELSE LET acc == FoldMapping(Front(fs))
             x == Last(fs)
             k == fname(x)
         IN  IF k \in DOMAIN acc THEN [acc EXCEPT ![k] = Append(@, x)]
             ELSE [j \in DOMAIN acc \cup {k} |-> IF j = k THEN <<x>> ELSE acc[j]]

\* The orders in which HashMap::into_iter may yield the keys of a mapping: the
\* hasher is seeded at random for every map, so any order.
IterOrders(mapping) ==
    LET keys == DOMAIN mapping
        n == Cardinality(keys)
    IN  { o \in [1..n -> keys] : \A i, j \in 1..n : o[i] = o[j] => i = j }

\* mapping.into_iter().map(|(k, v)| (k, vsize, v)).collect(), the map yielding
\* its keys in `order`.
CollectGrouping(mapping, order) ==
    [i \in 1..Len(order) |->
        [key |-> order[i], vsize |-> FoldSizes(mapping[order[i]]), val |-> mapping[order[i]]]]

\* Mutant of SortGrouping: the comparison a.1.cmp(&b.1), ascending.
SortGroupingAscending(grouping) ==
    SortByDesc(grouping, [i \in 1..Len(grouping) |-> 0 - grouping[i].vsize])

\* grouping.sort_by(|a, b| b.1.cmp(&a.1))
SortGrouping(grouping) == SortByDesc(grouping, [i \in 1..Len(grouping) |-> grouping[i].vsize])

get_filename_grouping(fs, order) ==
    LET collected == CollectGrouping(FoldMapping(fs), order)
        panics == { i \in 1..Len(collected) : collected[i].vsize.panic }
    IN  IF panics # {}
        THEN collected[CHOOSE i \in panics : \A j \in panics : i <= j].vsize
        ELSE Ok(SortGrouping([i \in 1..Len(collected) |->
                                [collected[i] EXCEPT !.vsize = collected[i].vsize.val]]))

----------------------------------------------------------------------------
\* main

\* .filter_map(|(_, vsize, val)| if val.len() < 2 {None} else {Some(vsize)})
\* .fold(0, |acc, num| acc + num)
RECURSIVE FoldDups(_)
FoldDups(grouping) ==
    IF grouping = <<>> THEN Ok(0)
    ELSE LET acc == FoldDups(Front(grouping))
             g == Last(grouping)
         IN  IF acc.panic THEN acc
             ELSE IF Len(g.val) < 2 THEN acc
             ELSE AddU64(acc.val, g.vsize)

\* Mutant of Skipped: the condition read as !verbose && (.. || ..).
SkippedWrongPrecedence(g) == ~verbose /\ (Len(g.val) < 2 \/ g.vsize < size_filter)

\* if !verbose && val.len() < 2 || vsize < size_filter { continue; }
Skipped(g) == (~verbose /\ Len(g.val) < 2) \/ g.vsize < size_filter

\* The body of the report loop for a group that is not skipped: the header
\* line, then a line per member, each reading the member's metadata.
PrintPanics(g) == \E i \in 1..Len(g.val) : dirent_get_size(g.val[i]).panic

Init ==
    /\ pc = "options"
    /\ overflow_checks \in BOOLEAN
    /\ verbose = FALSE
    /\ size_filter = 0
    /\ files = <<>>
    /\ filename_grouping = <<>>
    /\ total_size = 0
    /\ total_size_dups = 0
    /\ printed = <<>>
    /\ files2 = <<>>
    /\ grouping2 = <<>>

\* get_options: the options parse (or the process exits: -h, an unknown
\* option; or panics: --size is no number), and the two regexes compile (or
\* Regex::new(..).unwrap() panics).
GetOptions ==
    /\ pc = "options"
    /\ \/ \E v \in BOOLEAN, s \in SizeFilters :
            /\ verbose' = v
            /\ size_filter' = s
            /\ pc' = "walk"
       \/ /\ pc' \in {"exit", "panic_size_arg", "panic_regex"}
          /\ UNCHANGED <<verbose, size_filter>>
    /\ UNCHANGED <<overflow_checks, files, filename_grouping, total_size,
                   total_size_dups, printed, files2, grouping2>>

\* WalkDir::new(dir2walk)...collect(): the entries that are files and pass
\* the two name filters, in walk order.  No step reads an entry's metadata.
CollectFiles ==
    /\ pc = "walk"
    /\ \E n \in 0..MaxFiles : \E f \in [1..n -> WalkNames \X Metadata] : files' = DirEntries(f)
    /\ pc' = "sort"
    /\ UNCHANGED <<overflow_checks, verbose, size_filter, filename_grouping, total_size,
                   total_size_dups, printed, files2, grouping2>>

\* files.sort_by(|a, b| compare_direntry(a, b))
SortFiles ==
    /\ pc = "sort"
    /\ IF SortPanics(files)
       THEN pc' = "panic_metadata" /\ UNCHANGED files
       ELSE pc' = "group" /\ files' = SortedFiles(files)
    /\ UNCHANGED <<overflow_checks, verbose, size_filter, filename_grouping, total_size,
                   total_size_dups, printed, files2, grouping2>>

\* let filename_grouping = get_filename_grouping(&files)
Group ==
    /\ pc = "group"
    /\ \E order \in IterOrders(FoldMapping(files)) :
         LET r == get_filename_grouping(files, order)
         IN  IF r.panic
             THEN pc' = r.cause /\ UNCHANGED filename_grouping
             ELSE pc' = "total" /\ filename_grouping' = r.val
    /\ UNCHANGED <<overflow_checks, verbose, size_filter, files, total_size,
                   total_size_dups, printed, files2, grouping2>>

\* let total_size = files.iter().map(..).fold(0, ..)
TotalSize ==
    /\ pc = "total"
    /\ LET r == FoldSizes(files)
       IN  IF r.panic
           THEN pc' = r.cause /\ UNCHANGED total_size
           ELSE pc' = "dups" /\ total_size' = r.val
    /\ UNCHANGED <<overflow_checks, verbose, size_filter, files, filename_grouping,
                   total_size_dups, printed, files2, grouping2>>

\* let total_size_dups = ..., then the summary lines
TotalSizeDups ==
    /\ pc = "dups"
    /\ LET r == FoldDups(filename_grouping)
       IN  IF r.panic
           THEN pc' = r.cause /\ UNCHANGED total_size_dups
           ELSE pc' = "report" /\ total_size_dups' = r.val
    /\ UNCHANGED <<overflow_checks, verbose, size_filter, files, filename_grouping,
                   total_size, printed, files2, grouping2>>

\* for (key, vsize, val) in filename_grouping { ... }, from group i on: the
\* groups printed, or the panic of a member line.
RECURSIVE ReportLoop(_, _)
ReportLoop(grouping, i) ==
    IF i > Len(grouping) THEN Ok(<<>>)
    ELSE IF Skipped(grouping[i]) THEN ReportLoop(grouping, i + 1)
    ELSE IF PrintPanics(grouping[i]) THEN MetadataPanic
    ELSE LET rest == ReportLoop(grouping, i + 1)
         IN  IF rest.panic THEN rest ELSE Ok(<<grouping[i]>> \o rest.val)

\* The report loop, the last println!() and the return of main.
Report ==
    /\ pc = "report"
    /\ LET r == ReportLoop(filename_grouping, 1)
       IN  IF r.panic
           THEN pc' = r.cause /\ UNCHANGED printed
           ELSE pc' = "done" /\ printed' = r.val
    /\ UNCHANGED <<overflow_checks, verbose, size_filter, files, filename_grouping,
                   total_size, total_size_dups, files2, grouping2>>

Next ==
    \/ GetOptions
    \/ CollectFiles
    \/ SortFiles
    \/ Group
    \/ TotalSize
    \/ TotalSizeDups
    \/ Report

Spec == Init /\ [][Next]_vars

----------------------------------------------------------------------------
\* get_filename_grouping on its own: called on any sequence of records
\* (files), and again on a reordering of the same records (files2; or on the
\* same sequence: the identity is a reordering).  Each call builds a HashMap
\* of its own.

InitGrouping ==
    /\ pc = "call"
    /\ overflow_checks \in BOOLEAN
    /\ verbose = FALSE
    /\ size_filter = 0
    /\ \E n \in 0..MaxRecords : \E f \in [1..n -> RawNames \X ReadableMetadata] : files = DirEntries(f)
    /\ files2 = <<>>
    /\ filename_grouping = <<>>
    /\ grouping2 = <<>>
    /\ total_size = 0
    /\ total_size_dups = 0
    /\ printed = <<>>

CallGrouping ==
    /\ pc = "call"
    /\ \E order \in IterOrders(FoldMapping(files)) :
         LET r == get_filename_grouping(files, order)
         IN  IF r.panic
             THEN pc' = r.cause /\ UNCHANGED filename_grouping
             ELSE pc' = "call_again" /\ filename_grouping' = r.val
    /\ UNCHANGED <<overflow_checks, verbose, size_filter, files, total_size,
                   total_size_dups, printed, files2, grouping2>>

CallGroupingAgain ==
    /\ pc = "call_again"
    /\ \E fs \in Reorderings(files) :
         /\ files2' = fs
         /\ \E order \in IterOrders(FoldMapping(fs)) :
              LET r == get_filename_grouping(fs, order)
              IN  IF r.panic
                  THEN pc' = r.cause /\ UNCHANGED grouping2
                  ELSE pc' = "returned" /\ grouping2' = r.val
    /\ UNCHANGED <<overflow_checks, verbose, size_filter, files, total_size,
                   total_size_dups, printed, filename_grouping>>

NextGrouping ==
    \/ CallGrouping
    \/ CallGroupingAgain

SpecGrouping == InitGrouping /\ [][NextGrouping]_vars

----------------------------------------------------------------------------
\* Properties.

\* main holds the grouping it reports.
HasGrouping == pc \in {"total", "dups", "report", "done"}

\* The first call of get_filename_grouping on its own has returned.
Returned == pc \in {"call_again", "returned"}

\* The mathematical sum of the sizes of a sequence of readable entries.
RECURSIVE MathSum(_)
MathSum(v) == IF v = <<>> THEN 0 ELSE MathSum(Front(v)) + Last(v).meta.len

Range(s) == { s[i] : i \in DOMAIN s }

\* The places (group, member) of a grouping that hold entry e.
PlacesOf(grouping, e) ==
    UNION { { <<g, m>> : m \in { k \in 1..Len(grouping[g].val) : grouping[g].val[k] = e } } :
              g \in 1..Len(grouping) }

\* The group of a grouping that holds entry e.
GroupOf(grouping, e) == CHOOSE g \in 1..Len(grouping) : e \in Range(grouping[g].val)

\* Position of entry e in sequence s.
PosIn(s, e) == CHOOSE i \in 1..Len(s) : s[i] = e

Retained(g) == (verbose \/ Len(g.val) >= 2) /\ g.vsize >= size_filter

\* C2: filter composition.  When main returns, the groups the report loop
\* printed are exactly the groups of the grouping with
\* (verbose || members >= 2) && total_size >= size_filter, in the order of the
\* grouping.
C2_FilterComposition == pc = "done" => printed = SelectSeq(filename_grouping, Retained)

\* A verbose run that printed a group and skipped a single-member group
\* below the threshold.
C2_Witness ==
    /\ pc = "done"
    /\ verbose
    /\ printed # <<>>
    /\ \E g \in 1..Len(filename_grouping) :
         Len(filename_grouping[g].val) = 1 /\ filename_grouping[g].vsize < size_filter

\* C3: ordering.  In the grouping main reports, consecutive groups are
\* non-increasing in total size and, in every group, consecutive members are
\* non-increasing in size.
C3_Ordering ==
    HasGrouping =>
        /\ \A g \in 1..Len(filename_grouping) - 1 :
             filename_grouping[g].vsize >= filename_grouping[g + 1].vsize
        /\ \A g \in 1..Len(filename_grouping) :
             \A m \in 1..Len(filename_grouping[g].val) - 1 :
                filename_grouping[g].val[m].meta.len >= filename_grouping[g].val[m + 1].meta.len

\* A grouping of two groups with different totals, the first with members of
\* different sizes, from files the walk met in another order.
C3_Witness ==
    /\ HasGrouping
    /\ Len(filename_grouping) >= 2
    /\ filename_grouping[1].vsize > filename_grouping[2].vsize
    /\ Len(filename_grouping[1].val) >= 2
    /\ filename_grouping[1].val[1].meta.len > filename_grouping[1].val[2].meta.len
    /\ filename_grouping[1].val[1].path > filename_grouping[1].val[2].path

\* C4: group total.  Every group's stored total is the sum of the sizes of
\* its members.
C4_GroupTotal ==
    HasGrouping =>
        \A g \in 1..Len(filename_grouping) :
            filename_grouping[g].vsize = MathSum(filename_grouping[g].val)

\* The sum of the stored totals of the groups of two or more members.
RECURSIVE DupTotal(_)
DupTotal(grouping) ==
    IF grouping = <<>> THEN 0
    ELSE DupTotal(Front(grouping))
         + (IF Len(Last(grouping).val) >= 2 THEN Last(grouping).vsize ELSE 0)

\* C5: duplicated size.  The duplicated size main computes is the sum of the
\* totals of the groups of two or more members (0 when there is none).
C5_DuplicatedSize == pc \in {"report", "done"} => total_size_dups = DupTotal(filename_grouping)

\* The groups of a grouping as a set: name, members as a set, total.
GroupSet(grouping) ==
    { [key |-> grouping[g].key, val |-> Range(grouping[g].val), vsize |-> grouping[g].vsize] :
        g \in 1..Len(grouping) }

C7_DeterministicOrder ==
    (pc = "returned" /\ files2 = files) =>
        [g \in 1..Len(filename_grouping) |-> filename_grouping[g].key]
            = [g \in 1..Len(grouping2) |-> grouping2[g].key]

\* The members of every group of a grouping are ordered by size descending.
MembersDescending(grouping) ==
    \A g \in 1..Len(grouping) :
        \A m \in 1..Len(grouping[g].val) - 1 :
            grouping[g].val[m].meta.len >= grouping[g].val[m + 1].meta.len

\* The members of every group are in the relative order they have in input.
MembersInInputOrder(grouping, input) ==
    \A g \in 1..Len(grouping) :
        \A m \in 1..Len(grouping[g].val) - 1 :
            PosIn(input, grouping[g].val[m]) < PosIn(input, grouping[g].val[m + 1])

\* C8 as claimed: for any input, in any order, get_filename_grouping returns
\* every group's members ordered by size descending, members of equal size in
\* their input order.
C8_MembersSortedAnyInput ==
    Returned =>
        \A g \in 1..Len(filename_grouping) :
            \A m \in 1..Len(filename_grouping[g].val) - 1 :
                LET a == filename_grouping[g].val[m]
                    b == filename_grouping[g].val[m + 1]
                IN  \/ a.meta.len > b.meta.len
                    \/ a.meta.len = b.meta.len /\ PosIn(files, a) < PosIn(files, b)

\* C8 as amended: get_filename_grouping keeps every group's members in their
\* input order, so that for an input ordered by size descending (what main
\* passes) the members are ordered by size descending, members of equal size
\* in their input order.
C8_MembersKeepInputOrder ==
    Returned =>
        /\ MembersInInputOrder(filename_grouping, files)
        /\ (\A i \in 1..Len(files) - 1 : files[i].meta.len >= files[i + 1].meta.len)
              => MembersDescending(filename_grouping)

\* An input ordered by size descending with a group of three members, two of
\* them of equal size.
C8_Witness ==
    /\ Returned
    /\ \A i \in 1..Len(files) - 1 : files[i].meta.len >= files[i + 1].meta.len
    /\ \E g \in 1..Len(filename_grouping) :
         /\ Len(filename_grouping[g].val) = 3
         /\ filename_grouping[g].val[1].meta.len > filename_grouping[g].val[2].meta.len
         /\ filename_grouping[g].val[2].meta.len = filename_grouping[g].val[3].meta.len

\* The members of the groups of two or more members, one sequence.
RECURSIVE DupMembers(_)
DupMembers(grouping) ==
    IF grouping = <<>> THEN <<>>
    ELSE DupMembers(Front(grouping))
         \o (IF Len(Last(grouping).val) >= 2 THEN Last(grouping).val ELSE <<>>)

\* C9: no silent wraparound.  No total the program holds (a group's total,
\* the overall total, the duplicated size) is smaller than the mathematical
\* sum it stands for: a sum beyond the width of the type stops the program.
C9_NoSilentWraparound ==
    /\ HasGrouping =>
         \A g \in 1..Len(filename_grouping) :
             filename_grouping[g].vsize >= MathSum(filename_grouping[g].val)
    /\ pc \in {"dups", "report", "done"} => total_size >= MathSum(files)
    /\ pc \in {"report", "done"} => total_size_dups >= MathSum(DupMembers(filename_grouping))

\* C10: error-free core.  The sort, the grouping, the summary and the report
\* never abort on the records the walk collected.
C10_CoreNeverAborts == pc \notin {"panic_metadata", "panic_overflow"}

====
